---- MODULE Spec2Model ----
(***************************************************************************)
(* Batch fetcher of scripts/scrap_all_infos_works_of_art.py: the batch     *)
(* coordinator (process_all_batches, resume_from_batch), the per-url fetch *)
(* tasks (fetch_with_retry, fetch under an asyncio.Semaphore) and the      *)
(* batch writer (save_batch) over the directory of batch_NNNN.csv files.   *)
(***************************************************************************)
EXTENDS Integers, Sequences, FiniteSets, TLC

\* Bounds of the model: identifiers in the list, candidate batch sizes,
\* candidate semaphore capacities.
MaxUrls == 3
MaxBatchSize == 2
MaxConcurrent == 2

\* fetch_with_retry(session, url, semaphore, retries=3)
retries == 3

\* await asyncio.sleep(5) between two batches
COOLDOWN_SECONDS == 5

VARIABLES
    total_urls,               \* len(df_urls)
    BATCH_SIZE,               \* module configuration, fixed for the program
    MAX_CONCURRENT_REQUESTS,  \* module configuration, fixed for the program
    files,                    \* OUTPUT_DIR: file name -> [exists, rows]
    intended,                 \* per file name, the rows its latest to_csv set out to write
    mode,                     \* "full" (process_all_batches) or "resume" (resume_from_batch)
    start_batch,              \* argument of resume_from_batch
    pc,                       \* position of the coordinator
    i,                        \* loop variable of the coordinator
    tasks,                    \* the fetch_with_retry coroutines of the current batch
    semaphore,                \* value of the asyncio.Semaphore of the current fetch_batch
    completion,               \* task positions in the order the tasks returned
    data,                     \* the list returned by fetch_batch
    status,                   \* batch number -> state of the batch in this run
    prevRun,                  \* how the previous process ended: "none", "incomplete",
                              \* "complete" (every batch handled, each persisted or skipped)
                              \* or "complete_with_empty" (some batch had no successful row)
    cooldown,                 \* seconds of the asyncio.sleep the coordinator is in, else 0
    df_final                  \* the rows merge_all_batches returned to __main__

vars == <<total_urls, BATCH_SIZE, MAX_CONCURRENT_REQUESTS, files, intended, mode,
          start_batch, pc, i, tasks, semaphore, completion, data, status, prevRun,
          cooldown, df_final>>

config == <<total_urls, BATCH_SIZE, MAX_CONCURRENT_REQUESTS>>

----------------------------------------------------------------------------
\* Values

None == 0                      \* Python None; the document of url u is u >= 1

Min(a, b) == IF a < b THEN a ELSE b

\* What one network call can end with.
Responses == {"json200", "non200", "nonjson", "timeout", "clienterror", "exception"}

\* f"{batch_number:04d}": at least four decimal digits, zero padded.
RECURSIVE DecimalDigits(_)
DecimalDigits(n) == IF n < 10 THEN <<n>> ELSE Append(DecimalDigits(n \div 10), n % 10)

RECURSIVE ZeroPad(_, _)
ZeroPad(ds, width) == IF Len(ds) >= width THEN ds ELSE ZeroPad(<<0>> \o ds, width)

\* save_batch: batch_file = OUTPUT_DIR / f"batch_{batch_number:04d}.csv"
batch_file_unnumbered(batch_number) == ZeroPad(DecimalDigits(1), 4)
batch_file_zero_based(batch_number) == ZeroPad(DecimalDigits(batch_number - 1), 4)
batch_file(batch_number) == ZeroPad(DecimalDigits(batch_number), 4)

\* resume_from_batch: batch_file = OUTPUT_DIR / f"batch_{batch_number:04d}.csv"
resume_batch_file(batch_number) == ZeroPad(DecimalDigits(batch_number), 4)

FileNames == {ZeroPad(DecimalDigits(n), 4) : n \in 0..(MaxUrls + 1)}

NoFile == [exists |-> FALSE, rows |-> <<>>]
File(rows) == [exists |-> TRUE, rows |-> rows]

\* batch_file.exists()
batch_file_exists_always(dir, batch_number) == TRUE
batch_file_exists_never(dir, batch_number) == FALSE
batch_file_exists(dir, batch_number) == dir[resume_batch_file(batch_number)].exists

----------------------------------------------------------------------------
\* Batch plan of the coordinator

num_batches_floor(total, bs) == total \div bs
num_batches(total, bs) == (total + bs - 1) \div bs

start_idx(k, bs) == k * bs

end_idx_unclamped(k, bs, total) == (k + 1) * bs
end_idx(k, bs, total) == Min((k + 1) * bs, total)

\* df_urls['url'][start_idx:end_idx]; the url at 0-based position p is named p + 1
batch_urls(k, bs, total) ==
    [j \in 1..(end_idx(k, bs, total) - start_idx(k, bs)) |-> start_idx(k, bs) + j]

----------------------------------------------------------------------------
\* fetch and fetch_with_retry

fetch_accepts_any_200(url, response) ==
    IF response \in {"json200", "nonjson"} THEN url ELSE None

\* fetch: the parsed document on a 200 JSON response, None on every other path
fetch(url, response) == IF response = "json200" THEN url ELSE None

\* async with semaphore: a caller is suspended while the value is 0
semaphore_locked_never(value) == FALSE
semaphore_locked_off_by_one(value) == value <= 1
semaphore_locked(value) == value <= 0

\* entering and leaving the async with block
semaphore_acquire_takes_none(value) == value
semaphore_acquire(value) == value - 1

semaphore_release_leaks(value) == value
semaphore_release(value) == value + 1

wait_time_linear(attempt) == 2 * attempt
wait_time(attempt) == 2 ^ attempt

sleeps_after_every_attempt(attempt) == attempt < retries
sleeps_after(attempt) == attempt < retries - 1

\* fetch_batch: the counts it logs for the batch
successful_counts_all(results) == Len(results)
successful(results) == Cardinality({j \in 1..Len(results) : results[j] # None})
failed(results) == Len(results) - successful(results)

NewTask(url) ==
    [url |-> url, st |-> "acquire", attempt |-> 0, calls |-> 0,
     wait |-> 0, waited |-> 0, result |-> None]

\* results = await asyncio.gather(*tasks): results in the order of the awaitables
gather_as_completed(ts, order) == [j \in 1..Len(order) |-> ts[order[j]].result]
gather(ts, order) == [j \in 1..Len(ts) |-> ts[j].result]

----------------------------------------------------------------------------
\* save_batch

RECURSIVE filter_none(_)
filter_none(d) ==
    IF d = <<>> THEN <<>>
    ELSE IF Head(d) # None THEN <<Head(d)>> \o filter_none(Tail(d))
    ELSE filter_none(Tail(d))

filtered_data_all_or_nothing(d) ==
    IF \E j \in 1..Len(d) : d[j] = None THEN <<>> ELSE d
filtered_data(d) == filter_none(d)

\* save_batch returns None without touching the directory
save_batch_returns_none_on_empty_list(d) == d = <<>>
save_batch_returns_none(d) == d = <<>> \/ filtered_data(d) = <<>>

----------------------------------------------------------------------------
\* State after the module is loaded: the url list is read, OUTPUT_DIR exists
\* and holds no batch file, no coroutine runs.

BatchNumbers == 1..(MaxUrls + 1)

NoTasks == <<>>

Init ==
    /\ total_urls \in 0..MaxUrls
    /\ BATCH_SIZE \in 1..MaxBatchSize
    /\ MAX_CONCURRENT_REQUESTS \in 1..MaxConcurrent
    /\ files = [n \in FileNames |-> NoFile]
    /\ intended = [n \in FileNames |-> <<>>]
    /\ mode = "full"
    /\ start_batch = 1
    /\ pc = "idle"
    /\ i = 0
    /\ tasks = NoTasks
    /\ semaphore = 0
    /\ completion = <<>>
    /\ data = <<>>
    /\ status = [b \in BatchNumbers |-> "Planned"]
    /\ prevRun = "none"
    /\ cooldown = 0
    /\ df_final = <<>>

NumBatches == num_batches(total_urls, BATCH_SIZE)

Stopped == pc \in {"idle", "done", "merged", "interrupted", "fatal"}

\* process_all_batches or resume_from_batch returned to __main__
CoordinatorReturned ==
    \/ pc \in {"done", "merged"}
    \/ pc = "fatal" /\ i >= NumBatches

\* for i in range(first, num_batches): the loop body runs while i < num_batches
LoopAt(k) ==
    /\ i' = k
    /\ pc' = IF k < NumBatches THEN "loop" ELSE "done"

\* A new process starts: nothing of the previous process is left in memory.
FreshRun ==
    /\ tasks' = NoTasks
    /\ semaphore' = 0
    /\ completion' = <<>>
    /\ data' = <<>>
    /\ status' = [b \in BatchNumbers |-> "Planned"]
    /\ cooldown' = 0
    /\ df_final' = <<>>
    /\ prevRun' = IF pc = "idle" THEN "none"
                  ELSE IF ~CoordinatorReturned \/ start_batch # 1 THEN "incomplete"
                  ELSE IF \E b \in BatchNumbers : status[b] = "Empty"
                  THEN "complete_with_empty"
                  ELSE "complete"

\* __main__, option 1: asyncio.run(process_all_batches())
ProcessAllBatchesStart ==
    /\ Stopped
    /\ mode' = "full"
    /\ start_batch' = 1
    /\ LoopAt(0)
    /\ FreshRun
    /\ UNCHANGED <<config, files, intended>>

\* (variant) the loop of the resumed run starts at the first batch
ResumeFromBatchStartAtFirst(sb) ==
    /\ Stopped
    /\ sb <= NumBatches \/ sb = 1
    /\ mode' = "resume"
    /\ start_batch' = sb
    /\ LoopAt(0)
    /\ FreshRun
    /\ UNCHANGED <<config, files, intended>>

\* __main__, option 2: asyncio.run(resume_from_batch(start_batch))
ResumeFromBatchStart(sb) ==
    /\ Stopped
    /\ sb <= NumBatches \/ sb = 1
    /\ mode' = "resume"
    /\ start_batch' = sb
    /\ LoopAt(sb - 1)
    /\ FreshRun
    /\ UNCHANGED <<config, files, intended>>

\* fetch_batch up to its await: a new semaphore and one coroutine per url
FetchBatchBegin ==
    /\ semaphore' = MAX_CONCURRENT_REQUESTS
    /\ tasks' = [j \in 1..Len(batch_urls(i, BATCH_SIZE, total_urls)) |->
                    NewTask(batch_urls(i, BATCH_SIZE, total_urls)[j])]
    /\ completion' = <<>>
    /\ data' = <<>>
    /\ status' = [status EXCEPT ![i + 1] = "Fetching"]
    /\ pc' = "fetching"

\* process_all_batches, loop body up to await fetch_batch(...)
ProcessBatchBegin ==
    /\ pc = "loop"
    /\ mode = "full"
    /\ FetchBatchBegin
    /\ UNCHANGED <<config, files, intended, mode, start_batch, i, prevRun, cooldown,
                   df_final>>

\* resume_from_batch, loop body: the artifact exists, continue
ResumeSkip ==
    /\ pc = "loop"
    /\ mode = "resume"
    /\ batch_file_exists(files, i + 1)
    /\ status' = [status EXCEPT ![i + 1] = "Skipped"]
    /\ LoopAt(i + 1)
    /\ UNCHANGED <<config, files, intended, mode, start_batch, tasks, semaphore,
                   completion, data, prevRun, cooldown, df_final>>

\* resume_from_batch, loop body: no artifact, up to await fetch_batch(...)
ResumeBatchBegin ==
    /\ pc = "loop"
    /\ mode = "resume"
    /\ ~batch_file_exists(files, i + 1)
    /\ FetchBatchBegin
    /\ UNCHANGED <<config, files, intended, mode, start_batch, i, prevRun, cooldown,
                   df_final>>

----------------------------------------------------------------------------
\* The coroutines of one batch

CoordinatorFrame ==
    UNCHANGED <<config, files, intended, mode, start_batch, pc, i, data, status, prevRun,
                cooldown, df_final>>

\* fetch: async with semaphore is entered and session.get(...) is issued
TaskAcquire(j) ==
    /\ pc = "fetching"
    /\ tasks[j].st = "acquire"
    /\ ~semaphore_locked(semaphore)
    /\ semaphore' = semaphore_acquire(semaphore)
    /\ tasks' = [tasks EXCEPT ![j].st = "active", ![j].calls = @ + 1]
    /\ UNCHANGED completion
    /\ CoordinatorFrame

\* fetch returns (the semaphore is released on every path) and
\* fetch_with_retry decides: return the document, sleep, or give up
TaskComplete(j, response) ==
    /\ pc = "fetching"
    /\ tasks[j].st = "active"
    /\ semaphore' = semaphore_release(semaphore)
    /\ LET t == tasks[j]
           result == fetch(t.url, response)
       IN  IF result # None
           THEN /\ tasks' = [tasks EXCEPT ![j].st = "done", ![j].result = result]
                /\ completion' = Append(completion, j)
           ELSE IF sleeps_after(t.attempt)
           THEN /\ tasks' = [tasks EXCEPT ![j].st = "sleep",
                                          ![j].wait = wait_time(t.attempt)]
                /\ UNCHANGED completion
           ELSE /\ tasks' = [tasks EXCEPT ![j].st = "done", ![j].result = None]
                /\ completion' = Append(completion, j)
    /\ CoordinatorFrame

\* asyncio.sleep(wait_time) is over: next iteration of for attempt in range(retries)
TaskWake(j) ==
    /\ pc = "fetching"
    /\ tasks[j].st = "sleep"
    /\ LET t == tasks[j]
       IN  IF t.attempt + 1 < retries
           THEN /\ tasks' = [tasks EXCEPT ![j].st = "acquire", ![j].attempt = @ + 1,
                                          ![j].waited = @ + t.wait, ![j].wait = 0]
                /\ UNCHANGED completion
           ELSE /\ tasks' = [tasks EXCEPT ![j].st = "done", ![j].attempt = @ + 1,
                                          ![j].waited = @ + t.wait, ![j].wait = 0,
                                          ![j].result = None]
                /\ completion' = Append(completion, j)
    /\ UNCHANGED semaphore
    /\ CoordinatorFrame

\* (variant) the coordinator goes on to the next batch without save_batch
FetchBatchReturnSkipsSave ==
    /\ pc = "fetching"
    /\ \A j \in 1..Len(tasks) : tasks[j].st = "done"
    /\ data' = gather(tasks, completion)
    /\ status' = [status EXCEPT ![i + 1] = "Collected"]
    /\ i' = i + 1
    /\ pc' = IF i + 1 < num_batches(total_urls, BATCH_SIZE) THEN "loop" ELSE "done"
    /\ tasks' = NoTasks
    /\ semaphore' = 0
    /\ UNCHANGED <<config, files, intended, mode, start_batch, completion, prevRun,
                   cooldown, df_final>>

\* (variant) the wait returns with the first coroutine that returned
FetchBatchReturnFirstCompleted ==
    /\ pc = "fetching"
    /\ \E j \in 1..Len(tasks) : tasks[j].st = "done"
    /\ data' = gather(tasks, completion)
    /\ status' = [status EXCEPT ![i + 1] = "Collected"]
    /\ pc' = "collected"
    /\ tasks' = NoTasks
    /\ semaphore' = 0
    /\ UNCHANGED <<config, files, intended, mode, start_batch, i, completion, prevRun,
                   cooldown, df_final>>

\* await asyncio.gather(*tasks) returns once every coroutine has returned
FetchBatchReturn ==
    /\ pc = "fetching"
    /\ \A j \in 1..Len(tasks) : tasks[j].st = "done"
    /\ data' = gather(tasks, completion)
    /\ status' = [status EXCEPT ![i + 1] = "Collected"]
    /\ pc' = "collected"
    /\ tasks' = NoTasks
    /\ semaphore' = 0
    /\ UNCHANGED <<config, files, intended, mode, start_batch, i, completion, prevRun,
                   cooldown, df_final>>

----------------------------------------------------------------------------
\* save_batch and the end of the loop body

AfterSaveAlwaysSleeps == pc' = "cooldown" /\ i' = i /\ cooldown' = COOLDOWN_SECONDS

\* if i < num_batches - 1: await asyncio.sleep(5)
AfterSave ==
    IF i < NumBatches - 1
    THEN pc' = "cooldown" /\ i' = i /\ cooldown' = COOLDOWN_SECONDS
    ELSE LoopAt(i + 1) /\ cooldown' = 0

\* save_batch(data, batch_number) runs to its return
SaveBatch ==
    /\ pc = "collected"
    /\ IF save_batch_returns_none(data)
       THEN /\ status' = [status EXCEPT ![i + 1] = "Empty"]
            /\ UNCHANGED <<files, intended>>
       ELSE /\ files' = [files EXCEPT ![batch_file(i + 1)] = File(filtered_data(data))]
            /\ intended' = [intended EXCEPT ![batch_file(i + 1)] = filtered_data(data)]
            /\ status' = [status EXCEPT ![i + 1] = "Persisted"]
    /\ AfterSave
    /\ UNCHANGED <<config, mode, start_batch, tasks, semaphore, completion, data,
                   prevRun, df_final>>

\* (variant) the exception of df.to_csv is swallowed and the loop goes on
SaveBatchRaisesSwallowed ==
    /\ pc = "collected"
    /\ ~save_batch_returns_none(data)
    /\ AfterSave
    /\ UNCHANGED <<config, files, intended, mode, start_batch, tasks, semaphore,
                   completion, data, status, prevRun, df_final>>

\* df.to_csv raises (OUTPUT_DIR not writable): the exception leaves the coordinator
\* and is logged by the except clause of __main__
SaveBatchRaises ==
    /\ pc = "collected"
    /\ ~save_batch_returns_none(data)
    /\ pc' = "fatal"
    /\ UNCHANGED <<config, files, intended, mode, start_batch, i, tasks, semaphore,
                   completion, data, status, prevRun, cooldown, df_final>>

\* asyncio.sleep(5) between two batches is over
CooldownEnd ==
    /\ pc = "cooldown"
    /\ LoopAt(i + 1)
    /\ cooldown' = 0
    /\ UNCHANGED <<config, files, intended, mode, start_batch, tasks, semaphore,
                   completion, data, status, prevRun, df_final>>

----------------------------------------------------------------------------
\* The process is interrupted (KeyboardInterrupt, kill): memory is lost, the
\* directory stays as it is.

ProcessDies ==
    /\ pc' = "interrupted"
    /\ tasks' = NoTasks
    /\ semaphore' = 0
    /\ completion' = <<>>
    /\ data' = <<>>
    /\ cooldown' = 0
    /\ df_final' = <<>>
    /\ UNCHANGED <<config, mode, start_batch, i, status, prevRun>>

Interrupt ==
    /\ pc \in {"loop", "fetching", "collected", "cooldown"}
    /\ ProcessDies
    /\ UNCHANGED <<files, intended>>

\* Interrupted inside df.to_csv(batch_file, ...): the file was opened for
\* writing and holds the first k rows only.
InterruptDuringSave(k) ==
    /\ pc = "collected"
    /\ ~save_batch_returns_none(data)
    /\ k < Len(filtered_data(data))
    /\ files' = [files EXCEPT ![batch_file(i + 1)] = File(SubSeq(filtered_data(data), 1, k))]
    /\ intended' = [intended EXCEPT ![batch_file(i + 1)] = filtered_data(data)]
    /\ ProcessDies

----------------------------------------------------------------------------
\* merge_all_batches, called by __main__ after the coordinator returned

\* order of sorted() on the paths: character by character, and a name that is
\* a prefix of another comes first ('.' sorts before the digits)
RECURSIVE LexLess(_, _)
LexLess(a, b) ==
    IF a = <<>> THEN b # <<>>
    ELSE IF b = <<>> THEN FALSE
    ELSE IF Head(a) # Head(b) THEN Head(a) < Head(b)
    ELSE LexLess(Tail(a), Tail(b))

RECURSIVE sorted(_)
sorted(names) ==
    IF names = {} THEN <<>>
    ELSE LET first == CHOOSE x \in names : \A y \in names \ {x} : LexLess(x, y)
         IN  <<first>> \o sorted(names \ {first})

\* OUTPUT_DIR.glob("batch_*.csv")
glob_batch_files(dir) == {n \in FileNames : dir[n].exists}

\* pd.concat(dfs, ignore_index=True)
RECURSIVE concat_rows(_)
concat_rows(dfs) == IF dfs = <<>> THEN <<>> ELSE Head(dfs) \o concat_rows(Tail(dfs))

concat_last_only(dfs) == IF dfs = <<>> THEN <<>> ELSE dfs[Len(dfs)]
concat(dfs) == concat_rows(dfs)

\* df_final.drop_duplicates(): the first of equal rows is kept
RECURSIVE drop_duplicates(_)
drop_duplicates(rows) ==
    IF rows = <<>> THEN <<>>
    ELSE LET rest == drop_duplicates(SubSeq(rows, 1, Len(rows) - 1))
             last == rows[Len(rows)]
         IN  IF \E r \in 1..Len(rest) : rest[r] = last THEN rest ELSE Append(rest, last)

\* the data frames read with pd.read_csv, in the order of sorted(batch_files)
read_batches(dir) ==
    LET batch_files == sorted(glob_batch_files(dir))
    IN  [f \in 1..Len(batch_files) |-> dir[batch_files[f]].rows]

MergeFrame ==
    UNCHANGED <<config, files, intended, mode, start_batch, i, tasks, semaphore,
                completion, data, status, prevRun, cooldown>>

\* merge_all_batches returns the merged rows and __main__ logs the success
MergeAllBatches ==
    /\ pc = "done"
    /\ glob_batch_files(files) # {}
    /\ \A n \in glob_batch_files(files) : files[n].rows # <<>>
    /\ df_final' = drop_duplicates(concat(read_batches(files)))
    /\ pc' = "merged"
    /\ MergeFrame

\* no batch file: merge_all_batches returns None, df_final.shape raises in
\* __main__ and the except clause logs the fatal error
MergeNoBatchFiles ==
    /\ pc = "done"
    /\ glob_batch_files(files) = {}
    /\ pc' = "fatal"
    /\ UNCHANGED df_final
    /\ MergeFrame

\* a batch file cut before its first line: pd.read_csv raises, and the except
\* clause of __main__ logs the fatal error
MergeReadRaises ==
    /\ pc = "done"
    /\ \E n \in glob_batch_files(files) : files[n].rows = <<>>
    /\ pc' = "fatal"
    /\ UNCHANGED df_final
    /\ MergeFrame

----------------------------------------------------------------------------
\* merge_batches.py: the merge script, run on the directory of the batch files

\* validate_batch_file: the file can be read and has at least one row
validate_batch_file(dir, name) == dir[name].rows # <<>>

\* the batch files kept by the validation loop, in the order of sorted()
valid_batches(dir) ==
    SelectSeq(sorted(glob_batch_files(dir)), LAMBDA name : validate_batch_file(dir, name))

\* df_combined.drop_duplicates(subset=['url'], keep='first')
RECURSIVE drop_duplicates_subset_url(_)
drop_duplicates_subset_url(rows) ==
    IF rows = <<>> THEN <<>>
    ELSE LET rest == drop_duplicates_subset_url(SubSeq(rows, 1, Len(rows) - 1))
             last == rows[Len(rows)]
         IN  IF \E r \in 1..Len(rest) : rest[r].url = last.url
             THEN rest
             ELSE Append(rest, last)

\* merge_all_batches of merge_batches.py returns the merged rows
MergeScriptMerges ==
    /\ pc = "done"
    /\ valid_batches(files) # <<>>
    /\ LET batches == valid_batches(files)
           dfs == [f \in 1..Len(batches) |-> files[batches[f]].rows]
       IN  df_final' = drop_duplicates_subset_url(concat(dfs))
    /\ pc' = "merged_by_script"
    /\ MergeFrame

\* no batch file, or none that is valid: merge_all_batches of merge_batches.py
\* returns None and main logs the failure of the merge
MergeScriptFails ==
    /\ pc = "done"
    /\ valid_batches(files) = <<>>
    /\ pc' = "merge_failed"
    /\ UNCHANGED df_final
    /\ MergeFrame

\* the versions of the document of one url that the batch files can hold
Versions == {"old", "new"}

\* a row of a batch file: the column 'url' and what the other columns hold
Rows == [url : 1..MaxBatchSize, modified : Versions]

RECURSIVE SeqsUpTo(_, _)
SeqsUpTo(S, n) ==
    IF n = 0 THEN {<<>>}
    ELSE LET shorter == SeqsUpTo(S, n - 1)
         IN  shorter \cup {Append(q, x) : q \in {t \in shorter : Len(t) = n - 1}, x \in S}

\* the coordinator has returned; OUTPUT_DIR holds what the runs so far left in
\* batch_0001.csv and batch_0002.csv
InitMerge ==
    /\ total_urls = 0
    /\ BATCH_SIZE = 1
    /\ MAX_CONCURRENT_REQUESTS = 1
    /\ \E first, second \in {NoFile} \cup {File(q) : q \in SeqsUpTo(Rows, MaxBatchSize)} :
           files = [n \in FileNames |->
                       IF n = batch_file(1) THEN first
                       ELSE IF n = batch_file(2) THEN second
                       ELSE NoFile]
    /\ intended = [n \in FileNames |-> files[n].rows]
    /\ mode = "full"
    /\ start_batch = 1
    /\ pc = "done"
    /\ i = 0
    /\ tasks = NoTasks
    /\ semaphore = 0
    /\ completion = <<>>
    /\ data = <<>>
    /\ status = [b \in BatchNumbers |-> "Planned"]
    /\ prevRun = "none"
    /\ cooldown = 0
    /\ df_final = <<>>

\* the merge of the scraper, or the merge script
NextMerge ==
    \/ MergeAllBatches
    \/ MergeNoBatchFiles
    \/ MergeReadRaises
    \/ MergeScriptMerges
    \/ MergeScriptFails

SpecMerge == InitMerge /\ [][NextMerge]_vars

----------------------------------------------------------------------------

Next ==
    \/ ProcessAllBatchesStart
    \/ \E sb \in 1..MaxUrls : ResumeFromBatchStart(sb)
    \/ ProcessBatchBegin
    \/ ResumeSkip
    \/ ResumeBatchBegin
    \/ \E j \in 1..Len(tasks) : TaskAcquire(j)
    \/ \E j \in 1..Len(tasks), response \in Responses : TaskComplete(j, response)
    \/ \E j \in 1..Len(tasks) : TaskWake(j)
    \/ FetchBatchReturn
    \/ SaveBatch
    \/ SaveBatchRaises
    \/ CooldownEnd
    \/ MergeAllBatches
    \/ MergeNoBatchFiles
    \/ MergeReadRaises
    \/ Interrupt
    \/ \E k \in 0..MaxBatchSize : InterruptDuringSave(k)

Spec == Init /\ [][Next]_vars

----------------------------------------------------------------------------
\* Vocabulary of the properties

\* the artifact of sequence number n in the output location
Artifact(n) == files[ZeroPad(DecimalDigits(n), 4)]

\* the same artifact after the step
ArtifactAfter(n) == files'[ZeroPad(DecimalDigits(n), 4)]

ActiveCalls == {j \in 1..Len(tasks) : tasks[j].st = "active"}

\* the identifiers of the batch the coordinator is working on
CurrentUrls == batch_urls(i, BATCH_SIZE, total_urls)

\* one step of the coordinator that is not the death of the process
Survives == pc' # "interrupted" /\ pc' # "fatal"

FetchedStates == {"Fetching", "Collected", "Persisted", "Empty"}

----------------------------------------------------------------------------
\* C1: with semaphore capacity C = MAX_CONCURRENT_REQUESTS, in every reachable
\* state at most C fetch attempts hold an active network call, whatever the
\* number of batches, of urls per batch and the interleaving of tasks and retries.
C1_ConcurrencyBound == Cardinality(ActiveCalls) <= MAX_CONCURRENT_REQUESTS

\* C1 witness: a batch larger than the capacity, the capacity fully used, and
\* a retry waiting for a permit.
C1_Witness ==
    /\ pc = "fetching"
    /\ Len(tasks) > MAX_CONCURRENT_REQUESTS
    /\ Cardinality(ActiveCalls) = MAX_CONCURRENT_REQUESTS
    /\ \E j \in 1..Len(tasks) : tasks[j].st = "acquire" /\ tasks[j].attempt > 0

\* C2 as stated: on the full-run path and on the resume path alike, a batch
\* whose artifact exists when the batch is about to begin is skipped: no
\* coroutine is created for it and the coordinator moves on to the next batch.
C2_SkipWhenArtifactExists ==
    [][(pc = "loop" /\ Artifact(i + 1).exists /\ Survives)
        => /\ status'[i + 1] = "Skipped"
           /\ tasks' = NoTasks
           /\ i' = i + 1
           /\ pc' \in {"loop", "done"}]_vars

\* C2 amended: on the resume path (resume_from_batch), a batch whose artifact
\* exists when the batch is about to begin is skipped: no coroutine is
\* created for it and the coordinator moves on to the next batch.
C2_ResumeSkipsWhenArtifactExists ==
    [][(pc = "loop" /\ mode = "resume" /\ Artifact(i + 1).exists /\ Survives)
        => /\ status'[i + 1] = "Skipped"
           /\ tasks' = NoTasks
           /\ i' = i + 1
           /\ pc' \in {"loop", "done"}]_vars

\* C2 witness: the resume path has just skipped a batch and stands at the next.
C2_Witness ==
    /\ mode = "resume"
    /\ pc = "loop"
    /\ i >= 1
    /\ status[i] = "Skipped"
    /\ Artifact(i).exists

Intact(n) ==
    /\ Artifact(n).exists
    /\ Artifact(n).rows = intended[ZeroPad(DecimalDigits(n), 4)]

\* C4 as stated: save_batch leaves an existing artifact of its sequence
\* number unchanged, whatever batch result it is given (stated here for the
\* artifacts that were written to their end).
C4_SaveNeverOverwrites ==
    [][(pc = "collected" /\ Intact(i + 1) /\ Survives)
        => ArtifactAfter(i + 1) = Artifact(i + 1)]_vars

\* C5 as stated: whatever the step at which the run is interrupted, every
\* artifact that exists holds all the rows its write set out to persist.
C5_NoPartialArtifact ==
    \A n \in FileNames : files[n].exists => files[n].rows = intended[n]

----------------------------------------------------------------------------
\* The batch plan seen from outside

RangeStart(k) == start_idx(k, BATCH_SIZE)
RangeEnd(k) == end_idx(k, BATCH_SIZE, total_urls)
RangeSize(k) == RangeEnd(k) - RangeStart(k)

\* ceil(n / b), by its definition: the least k with k * b >= n
CeilDiv(n, b) == CHOOSE k \in 0..n : k * b >= n /\ \A m \in 0..(k - 1) : m * b < n

\* C6: the ranges [start_idx, end_idx) of the coordinator are contiguous,
\* ordered by sequence number, pairwise disjoint, and cover [0, total_urls)
\* exactly: every identifier is in exactly one batch, and the coroutines of a
\* batch are those of its range.
C6_RangesPartition ==
    /\ \A k \in 0..(NumBatches - 1) : 0 <= RangeStart(k) /\ RangeStart(k) <= RangeEnd(k)
    /\ NumBatches > 0 => RangeStart(0) = 0 /\ RangeEnd(NumBatches - 1) = total_urls
    /\ NumBatches = 0 => total_urls = 0
    /\ \A k \in 0..(NumBatches - 2) : RangeEnd(k) = RangeStart(k + 1)
    /\ \A p \in 0..(total_urls - 1) :
           Cardinality({k \in 0..(NumBatches - 1) : RangeStart(k) <= p /\ p < RangeEnd(k)}) = 1
    /\ pc = "fetching" =>
           /\ i < NumBatches
           /\ Len(tasks) = RangeSize(i)
           /\ \A j \in 1..Len(tasks) : tasks[j].url = RangeStart(i) + j

\* C6 witness: the last of several batches, shorter than the others, is being fetched.
C6_Witness ==
    /\ pc = "fetching"
    /\ i >= 1
    /\ i = NumBatches - 1
    /\ total_urls % BATCH_SIZE # 0
    /\ Len(tasks) = total_urls % BATCH_SIZE

\* C7: the coordinator iterates over ceil(N / B) batches, every batch but the
\* last has B identifiers and the last has N mod B (B when B divides N > 0).
C7_BatchCountAndSizes ==
    /\ NumBatches = CeilDiv(total_urls, BATCH_SIZE)
    /\ \A k \in 0..(NumBatches - 2) : RangeSize(k) = BATCH_SIZE
    /\ NumBatches > 0 =>
           RangeSize(NumBatches - 1) =
               IF total_urls % BATCH_SIZE = 0 THEN BATCH_SIZE ELSE total_urls % BATCH_SIZE
    /\ pc \in {"fetching", "collected"} => Len(CurrentUrls) = RangeSize(i) /\ i < NumBatches
    /\ pc = "fetching" => Len(tasks) = RangeSize(i)
    /\ pc = "collected" => Len(data) = RangeSize(i)
    /\ pc = "done" => i = CeilDiv(total_urls, BATCH_SIZE)

\* C7 witness: a full run over a list that is no multiple of the batch size
\* has ended after more than one batch.
C7_Witness ==
    /\ pc = "done"
    /\ mode = "full"
    /\ total_urls % BATCH_SIZE # 0
    /\ total_urls > BATCH_SIZE
    /\ i = NumBatches

----------------------------------------------------------------------------
\* Retry policy

\* C8: an identifier whose attempts fail k < 3 times and then succeed ends
\* with that document after exactly k + 1 fetch calls, having waited 2^i
\* before retry i, 2^k - 1 in all; nothing runs for it after the success and
\* its entry in the batch result is the document, not a failure.
C8_SuccessAfterFailures ==
    /\ [](\A j \in 1..Len(tasks) :
            /\ tasks[j].st = "sleep" => tasks[j].wait = 2 ^ tasks[j].attempt
            /\ (tasks[j].st = "done" /\ tasks[j].result # None) =>
                   /\ tasks[j].result = tasks[j].url
                   /\ tasks[j].attempt < retries
                   /\ tasks[j].calls = tasks[j].attempt + 1
                   /\ tasks[j].waited = 2 ^ tasks[j].attempt - 1)
    /\ [][/\ (pc = "fetching" /\ pc' = "fetching") =>
                \A j \in 1..Len(tasks) :
                    (tasks[j].st = "done" /\ tasks[j].result # None) => tasks'[j] = tasks[j]
          /\ (pc = "fetching" /\ pc' = "collected") =>
                \A j \in 1..Len(tasks) :
                    tasks[j].result # None => data'[j] = tasks[j].result]_vars

\* C8 witness: a task succeeded on its third attempt after waiting 1 + 2.
C8_Witness ==
    \E j \in 1..Len(tasks) :
        /\ tasks[j].st = "done"
        /\ tasks[j].result = tasks[j].url
        /\ tasks[j].attempt = 2
        /\ tasks[j].calls = 3
        /\ tasks[j].waited = 3

\* C9: no identifier gets more than `retries` fetch calls in its batch; when
\* they all fail the task ends with None without sleeping after the last
\* one, its entry of the batch result is None, and the artifact save_batch
\* writes from that result has no row for it.
C9_RetryExhaustion ==
    /\ [](\A j \in 1..Len(tasks) :
            /\ tasks[j].calls <= retries
            /\ tasks[j].st = "sleep" => tasks[j].attempt < retries - 1
            /\ (tasks[j].st = "done" /\ tasks[j].result = None) =>
                   /\ tasks[j].calls = retries
                   /\ tasks[j].attempt = retries - 1
                   /\ tasks[j].waited = 2 ^ 0 + 2 ^ 1)
    /\ [][/\ (pc = "fetching" /\ pc' = "collected") =>
                \A j \in 1..Len(tasks) : tasks[j].result = None => data'[j] = None
          /\ (pc = "collected" /\ Survives) =>
                \A j \in 1..Len(data) :
                    data[j] = None =>
                        IF status'[i + 1] = "Persisted"
                        THEN \A r \in 1..Len(ArtifactAfter(i + 1).rows) :
                                 ArtifactAfter(i + 1).rows[r] # CurrentUrls[j]
                        ELSE files' = files]_vars

\* C9 witness: a batch with a terminal failure and a success has been persisted.
C9_Witness ==
    /\ pc = "cooldown"
    /\ status[i + 1] = "Persisted"
    /\ \E j \in 1..Len(data) : data[j] = None
    /\ \E j \in 1..Len(data) : data[j] # None
    /\ Len(Artifact(i + 1).rows) < Len(data)

----------------------------------------------------------------------------
\* Order of the batch result

\* C10: whatever the order in which the coroutines of a batch return, the
\* batch result has one entry per identifier at the identifier's position,
\* and the rows save_batch writes are the successful entries in input order,
\* so never more rows than identifiers.
C10_ResultAlignedAndOrdered ==
    /\ [](pc = "collected" =>
            /\ Len(data) = Len(CurrentUrls)
            /\ \A j \in 1..Len(data) : data[j] \in {None, CurrentUrls[j]})
    /\ [][(pc = "collected" /\ Survives /\ status'[i + 1] = "Persisted") =>
            LET rows == ArtifactAfter(i + 1).rows
            IN  /\ Len(rows) <= Len(CurrentUrls)
                /\ \A r \in 1..(Len(rows) - 1) : rows[r] < rows[r + 1]
                /\ {rows[r] : r \in 1..Len(rows)} =
                       {CurrentUrls[j] : j \in {x \in 1..Len(data) : data[x] # None}}]_vars

\* C10 witness: the coroutines returned in the reverse of the input order and
\* the batch was persisted with both rows.
C10_Witness ==
    /\ pc = "cooldown"
    /\ status[i + 1] = "Persisted"
    /\ Len(completion) >= 2
    /\ completion[1] > completion[2]
    /\ Len(Artifact(i + 1).rows) = Len(data)

----------------------------------------------------------------------------
\* Sequencing of the batches

\* the batches this run has gone past: from its first batch to the one before
\* the batch at hand
PassedBatches == start_batch..i

\* the coroutines that exist belong to the range of the batch at hand
TasksOfCurrentBatch ==
    \A j \in 1..Len(tasks) : RangeStart(i) < tasks[j].url /\ tasks[j].url <= RangeEnd(i)

\* C11 as stated: no fetch for a batch is started, or waits for a permit,
\* before every earlier batch of the run is Persisted or Skipped, and the
\* coroutines in flight are never from two batches.
C11_NextBatchAfterPersistedOrSkipped ==
    /\ tasks # NoTasks => pc = "fetching" /\ TasksOfCurrentBatch
    /\ pc = "fetching" => \A b \in PassedBatches : status[b] \in {"Persisted", "Skipped"}

\* C11 amended: no fetch for a batch is started, or waits for a permit, before
\* every earlier batch of the run has ended as Persisted, as Skipped, or as an
\* empty batch (all its identifiers failed, no artifact); the coroutines in
\* flight are never from two batches.
C11_NextBatchAfterBatchEnded ==
    /\ tasks # NoTasks => pc = "fetching" /\ TasksOfCurrentBatch
    /\ pc = "fetching" => \A b \in PassedBatches : status[b] \in {"Persisted", "Skipped", "Empty"}

\* C11 witness: a batch is being fetched after a batch that ended empty.
C11_Witness ==
    /\ pc = "fetching"
    /\ i >= 1
    /\ status[i] = "Empty"
    /\ ActiveCalls # {}

\* C12: save_batch runs for a batch only after every coroutine of the batch
\* has returned, with a document or after its last attempt failed; no file is
\* written while a coroutine is in flight, waits for a permit or sleeps.
C12_BatchBarrier ==
    /\ [](pc = "collected" => tasks = NoTasks)
    /\ [][/\ (pc = "fetching" /\ pc' = "collected") =>
                /\ semaphore = MAX_CONCURRENT_REQUESTS
                /\ \A j \in 1..Len(tasks) :
                       /\ tasks[j].st = "done"
                       /\ tasks[j].result # None \/ tasks[j].calls = retries
          /\ files' # files => pc = "collected"
          /\ pc' = "collected" => pc \in {"fetching", "collected"}]_vars

\* C12 witness: a batch was collected with a terminal failure and a success.
C12_Witness ==
    /\ pc = "collected"
    /\ Len(data) >= 2
    /\ data[1] = None
    /\ data[2] # None

\* C13: the permits taken from the semaphore are exactly the active network
\* calls: none is held by a coroutine that sleeps or waits, every attempt takes
\* its own permit, and none is held while the batch is saved or during the
\* cooldown.
C13_PermitScope ==
    /\ pc = "fetching" =>
           MAX_CONCURRENT_REQUESTS - semaphore = Cardinality(ActiveCalls)
    /\ pc # "fetching" => tasks = NoTasks /\ ActiveCalls = {} /\ semaphore = 0
    /\ \A j \in 1..Len(tasks) :
           /\ tasks[j].st \in {"active", "sleep", "done"} => tasks[j].calls >= 1
           /\ tasks[j].st = "active" => tasks[j].calls = tasks[j].attempt + 1
           /\ tasks[j].st = "acquire" => tasks[j].calls = tasks[j].attempt

\* C13 witness: one coroutine sleeps in its backoff while another holds the
\* only permit taken, for a retry.
C13_Witness ==
    /\ pc = "fetching"
    /\ \E j \in 1..Len(tasks) : tasks[j].st = "sleep"
    /\ \E j \in 1..Len(tasks) : tasks[j].st = "active" /\ tasks[j].attempt >= 1
    /\ MAX_CONCURRENT_REQUESTS - semaphore = 1

\* C14: when every identifier of the batch failed, save_batch returns None
\* and the directory after the call is the directory before it.
C14_EmptyBatchWritesNothing ==
    [][(pc = "collected" /\ \A j \in 1..Len(data) : data[j] = None)
        => /\ files' = files
           /\ Survives => status'[i + 1] = "Empty"]_vars

\* C14 witness: a batch of two identifiers ended empty and has no artifact.
C14_Witness ==
    /\ pc = "cooldown"
    /\ status[i + 1] = "Empty"
    /\ Len(data) >= 2
    /\ ~Artifact(i + 1).exists

\* the successful entries of the batch result, by position
Successes == {j \in 1..Len(data) : data[j] # None}

\* C15: failed attempts and failed identifiers never end the batch or the
\* run: the coordinator goes through every later batch whatever failed, and
\* a batch with a success gets an artifact with exactly its successful rows.
C15_GracefulDegradation ==
    /\ [](pc \in {"done", "merged"} =>
            \A b \in start_batch..NumBatches : status[b] \in {"Persisted", "Empty", "Skipped"})
    /\ [][/\ pc = "fetching" => pc' \in {"fetching", "collected", "interrupted"}
          /\ (pc = "collected" /\ Survives) =>
                /\ pc' = IF i < NumBatches - 1 THEN "cooldown" ELSE "done"
                /\ Successes # {} =>
                      /\ ArtifactAfter(i + 1).exists
                      /\ Len(ArtifactAfter(i + 1).rows) = Cardinality(Successes)
                      /\ \A j \in Successes :
                             \E r \in 1..Len(ArtifactAfter(i + 1).rows) :
                                 ArtifactAfter(i + 1).rows[r] = data[j]]_vars

\* C15 witness: a full run ended after a batch persisted with fewer rows than
\* identifiers and a later batch that ended empty.
C15_Witness ==
    /\ pc = "done"
    /\ mode = "full"
    /\ NumBatches >= 2
    /\ status[1] = "Persisted"
    /\ Len(Artifact(1).rows) < RangeSize(0)
    /\ status[NumBatches] = "Empty"

----------------------------------------------------------------------------
\* Pacing

\* C16 as stated: after every batch but the last, Persisted or Skipped, the
\* coordinator sleeps COOLDOWN_SECONDS before the next batch; after the last
\* batch it does not sleep.
C16_CooldownAfterPersistedOrSkipped ==
    [][(pc \in {"loop", "collected"} /\ Survives /\ status[i + 1] # status'[i + 1]
        /\ status'[i + 1] \in {"Persisted", "Skipped"})
        => IF i < NumBatches - 1
           THEN pc' = "cooldown" /\ cooldown' = 5
           ELSE pc' = "done" /\ cooldown' = 0]_vars

\* C16 amended: after every batch but the last that was fetched (Persisted,
\* or ended empty) the coordinator sleeps 5 seconds before the next batch; a
\* batch that is Skipped is followed by the next batch at once; after the last
\* batch there is no sleep.
C16_CooldownAfterFetchedBatch ==
    /\ [](cooldown = (IF pc = "cooldown" THEN 5 ELSE 0))
    /\ [][/\ (pc = "collected" /\ Survives) =>
                IF i < NumBatches - 1
                THEN pc' = "cooldown" /\ cooldown' = 5 /\ i' = i
                ELSE pc' = "done" /\ cooldown' = 0
          /\ (pc = "loop" /\ Survives /\ status'[i + 1] = "Skipped") =>
                /\ pc' = (IF i < NumBatches - 1 THEN "loop" ELSE "done")
                /\ i' = i + 1
                /\ cooldown' = 0
          /\ pc = "cooldown" =>
                \/ pc' = "interrupted"
                \/ pc' = "loop" /\ i' = i + 1 /\ status' = status
          /\ (pc' = "fetching" /\ pc # "fetching") => pc = "loop"]_vars

\* C16 witness: on the resume path a batch was skipped, the next one was
\* fetched and persisted, and the coordinator sleeps before a third one.
C16_Witness ==
    /\ mode = "resume"
    /\ pc = "cooldown"
    /\ cooldown = 5
    /\ i >= 1
    /\ status[i] = "Skipped"
    /\ status[i + 1] = "Persisted"

----------------------------------------------------------------------------
\* Failure of the write

\* C18: when the write of a batch artifact raises, the run is over: the
\* directory is as before the call, no later batch is fetched, and the run
\* ends in the fatal-error state, from which only a new process goes on.
C18_WriteFailureIsFatal ==
    /\ [](\A b \in BatchNumbers :
            status[b] = "Collected" => b = i + 1 /\ pc \in {"collected", "fatal", "interrupted"})
    /\ [](pc = "fatal" =>
            /\ tasks = NoTasks
            /\ df_final = <<>>
            /\ \A b \in BatchNumbers : b > i + 1 => status[b] = "Planned")
    /\ [][/\ (pc = "collected" /\ pc' = "fatal") =>
                files' = files /\ status' = status /\ i' = i /\ tasks' = NoTasks
          /\ pc = "fatal" =>
                \/ pc' = "fatal"
                \/ /\ tasks' = NoTasks
                   /\ \A b \in BatchNumbers : status'[b] = "Planned"
                   /\ i' = start_batch' - 1]_vars

\* C18 witness: the write of the second batch failed after the first batch
\* was persisted and with a batch still to come.
C18_Witness ==
    /\ pc = "fatal"
    /\ i >= 1
    /\ i < NumBatches - 1
    /\ status[i] = "Persisted"
    /\ status[i + 1] = "Collected"
    /\ ~Artifact(i + 1).exists
    /\ status[i + 2] = "Planned"

----------------------------------------------------------------------------
\* The scenario of twelve identifiers in batches of five

\* the identifiers whose every attempt fails
AlwaysFailing == {3, 9}

\* empty OUTPUT_DIR, twelve urls in the csv, BATCH_SIZE five
InitScenario ==
    /\ total_urls = 12
    /\ BATCH_SIZE = 5
    /\ MAX_CONCURRENT_REQUESTS \in 1..MaxConcurrent
    /\ files = [n \in FileNames |-> NoFile]
    /\ intended = [n \in FileNames |-> <<>>]
    /\ mode = "full"
    /\ start_batch = 1
    /\ pc = "idle"
    /\ i = 0
    /\ tasks = NoTasks
    /\ semaphore = 0
    /\ completion = <<>>
    /\ data = <<>>
    /\ status = [b \in BatchNumbers |-> "Planned"]
    /\ prevRun = "none"
    /\ cooldown = 0
    /\ df_final = <<>>

\* the one run of the scenario, on the empty directory
ScenarioStart == pc = "idle" /\ ProcessAllBatchesStart

\* the server answers every call for an identifier of AlwaysFailing with one
\* of the failures, and every other call with the document
ScenarioTaskComplete(j) ==
    \E response \in Responses :
        /\ (response = "json200") <=> (tasks[j].url \notin AlwaysFailing)
        /\ TaskComplete(j, response)

NextScenario ==
    \/ ScenarioStart
    \/ ProcessBatchBegin
    \/ \E j \in 1..Len(tasks) : TaskAcquire(j)
    \/ \E j \in 1..Len(tasks) : ScenarioTaskComplete(j)
    \/ \E j \in 1..Len(tasks) : TaskWake(j)
    \/ FetchBatchReturn
    \/ SaveBatch
    \/ CooldownEnd
    \/ MergeAllBatches

SpecScenario == InitScenario /\ [][NextScenario]_vars

\* C17: twelve identifiers in batches of five on an empty directory make three
\* batches of sizes 5, 5 and 2; with identifiers 3 and 9 failing on every
\* attempt and all others succeeding, the artifact of batch 2 has the 4 rows
\* of identifiers 6, 7, 8 and 10, and the merged output has 10 rows.
C17_TwelveIdentifiersScenario ==
    /\ NumBatches = 3
    /\ <<RangeSize(0), RangeSize(1), RangeSize(2)>> = <<5, 5, 2>>
    /\ pc = "fetching" => Len(tasks) = <<5, 5, 2>>[i + 1]
    /\ pc = "collected" => Len(data) = <<5, 5, 2>>[i + 1]
    /\ status[2] = "Persisted" =>
           /\ Len(Artifact(2).rows) = 4
           /\ Artifact(2).rows = <<fetch(6, "json200"), fetch(7, "json200"),
                                   fetch(8, "json200"), fetch(10, "json200")>>
    /\ pc \in {"done", "merged"} =>
           \A b \in 1..3 : status[b] = "Persisted"
    /\ pc = "merged" =>
           /\ Len(df_final) = 10
           /\ \A u \in (1..12) \ AlwaysFailing :
                  \E r \in 1..Len(df_final) : df_final[r] = fetch(u, "json200")

\* C17 witness: the run of the scenario has merged its three artifacts.
C17_Witness ==
    /\ total_urls = 12
    /\ BATCH_SIZE = 5
    /\ pc = "merged"
    /\ Len(Artifact(1).rows) = 4
    /\ Len(Artifact(2).rows) = 4
    /\ Len(Artifact(3).rows) = 2
    /\ Len(df_final) = 10

----------------------------------------------------------------------------
\* Progress

\* a step of the event loop: the coordinator or a coroutine of the batch
RunStep ==
    \/ ProcessBatchBegin
    \/ ResumeSkip
    \/ ResumeBatchBegin
    \/ \E j \in 1..Len(tasks) : TaskAcquire(j)
    \/ \E j \in 1..Len(tasks), response \in Responses : TaskComplete(j, response)
    \/ \E j \in 1..Len(tasks) : TaskWake(j)
    \/ FetchBatchReturn
    \/ SaveBatch
    \/ CooldownEnd

\* the full run on the empty directory, and one resume after it
LiveFullRun == pc = "idle" /\ ProcessAllBatchesStart
LiveResume(sb) == pc # "idle" /\ mode = "full" /\ ResumeFromBatchStart(sb)

\* runs that nothing kills and whose writes succeed
NextLive ==
    \/ LiveFullRun
    \/ \E sb \in 1..MaxUrls : LiveResume(sb)
    \/ RunStep
    \/ MergeAllBatches
    \/ MergeNoBatchFiles

\* the event loop keeps running what is ready: every call returns (aiohttp's
\* total timeout bounds it), every sleep ends, every ready coroutine is resumed
LiveSpec == Init /\ [][NextLive]_vars /\ WF_vars(RunStep)

Running == pc \in {"loop", "fetching", "collected", "cooldown"}

\* the longest a coroutine sleeps in all: wait_time of every attempt but the last
MaxBackoff == wait_time(0) + wait_time(1)

\* C19: when every call returns and the event loop is fair, every batch that
\* is fetched is collected, with every identifier at a document or at its
\* last failed attempt, and the coordinator returns having gone through every
\* batch; an identifier that always fails costs its batch at most retries
\* calls and the backoff sleeps between them.
C19_Termination ==
    /\ (pc = "fetching") ~> (pc = "collected")
    /\ Running ~>
          (/\ pc = "done"
           /\ i = NumBatches
           /\ \A b \in start_batch..NumBatches :
                  status[b] \in {"Persisted", "Empty", "Skipped"})
    /\ [](\A j \in 1..Len(tasks) :
            /\ tasks[j].calls <= retries
            /\ tasks[j].waited + tasks[j].wait <= MaxBackoff)

\* C19 witness: the coordinator returned after a batch in which an identifier
\* failed on every one of its attempts while another succeeded.
C19_Witness ==
    /\ pc = "done"
    /\ i = NumBatches
    /\ Len(completion) >= 2
    /\ Len(data) >= 2
    /\ \E j \in 1..Len(data) : data[j] = None
    /\ \E j \in 1..Len(data) : data[j] # None

\* C20: every coroutine that waits for the semaphore, for its first call or
\* for a retry, gets to make its call, given that every call returns.
C20_NoStarvation ==
    \A j \in 1..MaxBatchSize :
        (pc = "fetching" /\ j <= Len(tasks) /\ tasks[j].st = "acquire")
            ~> (pc = "fetching" /\ j <= Len(tasks) /\ tasks[j].st = "active")

\* C20 witness: a batch with more coroutines than permits, every permit
\* taken, and a coroutine waiting for the semaphore for a retry.
C20_Witness ==
    /\ pc = "fetching"
    /\ Len(tasks) > MAX_CONCURRENT_REQUESTS
    /\ semaphore = 0
    /\ \E j \in 1..Len(tasks) : tasks[j].st = "acquire" /\ tasks[j].attempt >= 1

----------------------------------------------------------------------------
\* The outcome of one call of fetch

\* the kind of outcome the response of one call stands for
Classification(response) ==
    CASE response = "json200" -> "Success"
      [] response = "non200" -> "HTTPError"
      [] response = "nonjson" -> "ContentTypeMismatch"
      [] response = "timeout" -> "Timeout"
      [] OTHER -> "TransportError"

\* C21 as stated: fetch returns on every response or error of the call, and
\* the value it returns carries the classification of the outcome: what
\* fetch_with_retry gets back tells the kinds of outcome apart.
C21_FetchOutcomeTyped ==
    [][\A j \in 1..Len(tasks) : \A r1, r2 \in Responses :
          (TaskComplete(j, r1) /\ TaskComplete(j, r2))
              => Classification(r1) = Classification(r2)]_vars

\* C21 amended: fetch returns on every response or error of the call and
\* never raises into fetch_with_retry or the batch: it returns the parsed
\* document on a 200 JSON response and None on every failure, whatever its
\* kind (the kind is only logged); the permit is given back on every return.
C21_FetchTotalReturnsNoneOnFailure ==
    [][pc = "fetching" =>
        /\ pc' # "fatal"
        /\ pc' = "fetching" =>
              \A j \in 1..Len(tasks) :
                  (tasks[j].st = "active" /\ tasks'[j].st # "active") =>
                      /\ semaphore' = semaphore + 1
                      /\ tasks'[j].st \in {"sleep", "done"}
                      /\ \A r \in Responses :
                             fetch(tasks[j].url, r) =
                                 (IF Classification(r) = "Success"
                                  THEN tasks[j].url ELSE None)
                      /\ \E r \in Responses : tasks'[j].result = fetch(tasks[j].url, r)
                      /\ tasks'[j].result # None => tasks'[j].st = "done"]_vars

\* C21 witness: in one batch a call that failed was answered with None, its
\* coroutine sleeping before the retry, and another call returned its document.
C21_Witness ==
    /\ pc = "fetching"
    /\ \E j \in 1..Len(tasks) : tasks[j].st = "sleep" /\ tasks[j].result = None
    /\ \E j \in 1..Len(tasks) : tasks[j].st = "done" /\ tasks[j].result = tasks[j].url

----------------------------------------------------------------------------
\* Accounting of a batch

\* C22: for every batch that is fetched, the successful and failed counts
\* that fetch_batch logs add up to the number of identifiers of the batch, and
\* save_batch writes as many rows to the artifact as there were successes
\* (none, and no file, when there was no success).
C22_BatchAccounting ==
    [][/\ (pc = "fetching" /\ pc' = "collected") =>
            /\ Len(tasks) = RangeSize(i)
            /\ successful(data') + failed(data') = Len(tasks)
            /\ successful(data') =
                   Cardinality({j \in 1..Len(tasks) : tasks[j].result = tasks[j].url})
            /\ failed(data') =
                   Cardinality({j \in 1..Len(tasks) : tasks[j].result = None})
       /\ (pc = "collected" /\ Survives) =>
            IF successful(data) = 0
            THEN files' = files
            ELSE /\ ArtifactAfter(i + 1).exists
                 /\ Len(ArtifactAfter(i + 1).rows) = successful(data)]_vars

\* C22 witness: a batch of which one identifier failed and one succeeded was
\* saved with one row per success.
C22_Witness ==
    /\ pc = "cooldown"
    /\ status[i + 1] = "Persisted"
    /\ failed(data) >= 1
    /\ successful(data) >= 1
    /\ Len(Artifact(i + 1).rows) = successful(data)

----------------------------------------------------------------------------
\* The merge

\* the rows of the batch files, taken in ascending order of sequence number
RECURSIVE RowsInSequenceOrder(_)
RowsInSequenceOrder(n) ==
    IF n = 0 THEN <<>>
    ELSE RowsInSequenceOrder(n - 1) \o Artifact(n).rows

AllRows == RowsInSequenceOrder(MaxUrls + 1)

\* the first row with the url of row r, in sequence order
FirstWithKey(k) ==
    AllRows[CHOOSE r \in 1..Len(AllRows) :
                AllRows[r].url = k /\ \A q \in 1..(r - 1) : AllRows[q].url # k]

\* C23: the output of the merge, of the scraper or of the merge script, read
\* from the batch files in ascending order of sequence number, has a row for
\* every url found in the batch files, no two rows with the same url, and for
\* each url the first of its rows in sequence order.
C23_MergeKeepsFirstRowPerKey ==
    pc \in {"merged", "merged_by_script"} =>
        /\ \A r \in 1..Len(AllRows) :
               \E q \in 1..Len(df_final) : df_final[q].url = AllRows[r].url
        /\ \A q1, q2 \in 1..Len(df_final) :
               df_final[q1].url = df_final[q2].url => q1 = q2
        /\ \A q \in 1..Len(df_final) : df_final[q] = FirstWithKey(df_final[q].url)

----------------------------------------------------------------------------
\* Frame of a batch and of the resumed run

\* C24: while batch N is processed, fetched and saved, by process_all_batches
\* or by resume_from_batch, no artifact of another batch is created, changed
\* or deleted: the only file written is the one named from N's zero-padded
\* sequence number, and two batches never have the same file name.
C24_OnlyOwnArtifactWritten ==
    /\ [](pc = "collected" =>
            \A b \in BatchNumbers : b # i + 1 => batch_file(b) # batch_file(i + 1))
    /\ [][files' # files =>
            /\ pc = "collected"
            /\ \A n \in 0..(MaxUrls + 1) : n # i + 1 => ArtifactAfter(n) = Artifact(n)]_vars

\* C24 witness: the second batch was written while the first batch, which
\* ended empty, still has no artifact.
C24_Witness ==
    /\ NumBatches >= 2
    /\ status[1] = "Empty"
    /\ ~Artifact(1).exists
    /\ status[2] = "Persisted"
    /\ Intact(2)

\* the resumed run from the first batch has returned
ResumeFromFirstDone == mode = "resume" /\ start_batch = 1 /\ pc = "done"

\* C25 as stated: after resume_from_batch(1) has run to its end every batch
\* has an artifact or had no success in this run; a batch is skipped if and
\* only if its artifact existed when it was checked; so a batch that ended
\* empty in an earlier run is fetched again by the later run.
C25_ResumeRefetchesEmptyBatch ==
    /\ [](ResumeFromFirstDone =>
            \A b \in 1..NumBatches : Artifact(b).exists \/ status[b] = "Empty")
    /\ [](ResumeFromFirstDone /\ prevRun = "complete_with_empty" =>
            \E b \in 1..NumBatches : status[b] \in {"Persisted", "Empty"})
    /\ [][(mode = "resume" /\ pc = "loop" /\ Survives) =>
            (status'[i + 1] = "Skipped" <=> Artifact(i + 1).exists)]_vars

\* C25 amended: after resume_from_batch(1) has run to its end every batch
\* has an artifact or had no success in this run; a batch is skipped if and
\* only if its artifact existed when it was checked, and is fetched in full
\* otherwise: a batch that ended empty in an earlier run is fetched again
\* unless a file of its sequence number, left by a run before that one, exists.
C25_ResumeSkipsExactlyExistingArtifacts ==
    /\ [](ResumeFromFirstDone =>
            \A b \in 1..NumBatches :
                /\ Artifact(b).exists \/ status[b] = "Empty"
                /\ status[b] \in {"Skipped", "Persisted", "Empty"})
    /\ [](mode = "resume" =>
            \A b \in BatchNumbers : status[b] = "Skipped" => Artifact(b).exists)
    /\ [][(mode = "resume" /\ pc = "loop" /\ Survives) =>
            IF Artifact(i + 1).exists
            THEN status'[i + 1] = "Skipped" /\ tasks' = NoTasks
            ELSE /\ status'[i + 1] # "Skipped"
                 /\ pc' = "fetching"
                 /\ Len(tasks') = RangeSize(i)
                 /\ \A j \in 1..Len(tasks') : tasks'[j].url = RangeStart(i) + j]_vars

\* C25 witness: after a complete run with an empty batch, the resumed run
\* from the first batch has skipped a batch and fetched and saved another.
C25_Witness ==
    /\ ResumeFromFirstDone
    /\ prevRun = "complete_with_empty"
    /\ \E b \in 1..NumBatches : status[b] = "Skipped"
    /\ \E b \in 1..NumBatches : status[b] = "Persisted"

\* the batches before the one resume_from_batch starts at
EarlierBatches == 1..(start_batch - 1)

\* C26: resume_from_batch(k) leaves the batches below k alone: it starts no
\* fetch for their identifiers and neither checks nor writes their artifacts,
\* so an artifact below k that is missing is still missing at the end.
C26_ResumeLeavesEarlierBatchesUntouched ==
    /\ [](mode = "resume" =>
            /\ i >= start_batch - 1
            /\ \A b \in EarlierBatches : status[b] = "Planned"
            /\ \A j \in 1..Len(tasks) : tasks[j].url > RangeStart(start_batch - 1))
    /\ [][(mode = "resume" /\ ~Stopped) =>
            \A b \in EarlierBatches : ArtifactAfter(b) = Artifact(b)]_vars

\* C26 witness: the run resumed at the second batch has returned with that
\* batch saved and the artifact of the first batch still missing.
C26_Witness ==
    /\ mode = "resume"
    /\ start_batch >= 2
    /\ pc = "done"
    /\ ~Artifact(1).exists
    /\ status[start_batch] = "Persisted"

====
